---- MODULE Spec2Model ----
(***************************************************************************)
(* Semi-supervised teacher/student training loop of train_2d_ACDC_CCB.py:  *)
(* teacher construction, checkpoint load, the per-step pipeline            *)
(* (teacher forward, confidence-guided cutmix, student forward, losses,    *)
(* class-aware thresholding, SGD step, poly learning rate, teacher EMA,    *)
(* step counter), per-epoch evaluation and checkpoint writing, and         *)
(* stop/resume of the process at an epoch boundary.                        *)
(*                                                                         *)
(* Tensors are small integer vectors.  Floating-point products with a      *)
(* decay d in [0,1] are fixed-point: d is the rational <<num, den>> and    *)
(* x*d + y*(1-d) is (x*num + y*(den-num)) \div den, which is exact for     *)
(* d = 0 and d = 1 as the floating-point expression is.                    *)
(***************************************************************************)
EXTENDS Integers, Sequences, FiniteSets, TLC

\* ----------------------------------------------------------------- bounds
Epochs == 2            \* cfg['train']['epochs']
LoaderLen == 3         \* len(trainloader_u): training steps per epoch
MaxRuns == 2           \* processes started one after another (stop/resume)
NParams == 2           \* tensors yielded by model.parameters()
NBuffers == 1          \* tensors yielded by model.buffers()
MaxIters == 3          \* largest step given to update_ema_variables on its own
HW == 2                \* pixels of one (flattened) mixed image
ClSize == 1            \* pixels of the feature map the masks are resized to

\* ------------------------------------------------------------ value domains
Classes == {0, 1}                 \* class ids 0 .. num_classes-1
Confs == {50, 100}                \* per-pixel max-softmax confidence, in percent
Weights == {0, 1}                 \* values a weight or running statistic takes
EmaValues == {0, 2}               \* tensor values given to update_ema_variables
Metrics == {0, 1}                 \* values of m_hd95 and of m_pa * 100
Dices == {0, 1, 2}                \* values of m_dice * 100
Decays == {<<0, 1>>, <<1, 2>>, <<99, 100>>, <<1, 1>>}   \* ema_decay in [0,1]
MainDecays == {<<99, 100>>}       \* cfg['semi']['ema_decay'] of a training run

\* momentum=0.99 of Class_Aware_Threshold
MomentumNum == 99
MomentumDen == 100

total_iters == LoaderLen * Epochs

\* ------------------------------------------------------- update_ema_variables
\* a <= b for rationals <<num, den>> with positive denominators
RatLeq(a, b) == a[1] * b[2] <= b[1] * a[2]

\* Python's min(a, b): a unless b < a
RatMin(a, b) == IF RatLeq(a, b) THEN a ELSE b

\* x * d + y * (1 - d)
Blend(x, y, d) == (x * d[1] + y * (d[2] - d[1])) \div d[2]

EffectiveDecayNoRamp(decay, it) == decay

\* ema_decay = min(1 - 1 / (iters + 1), ema_decay)
EffectiveDecay(decay, it) == RatMin(<<it, it + 1>>, decay)

\* zip(model.parameters(), model_teacher.parameters()): the k-th with the k-th
EmaZip(train, eval, d) ==
    [k \in DOMAIN eval |-> Blend(eval[k], train[k], d)]

\* the teacher after update_ema_variables(model, model_teacher, ema_decay, iters):
\* every .data is rebound to a freshly computed tensor
update_ema_params_only(m, mt, tparams, decay, it) ==
    [params |-> EmaZip(m.params, tparams, EffectiveDecay(decay, it)),
     buffers |-> mt.buffers,
     shares |-> FALSE]

update_ema_variables(m, mt, tparams, decay, it) ==
    [params |-> EmaZip(m.params, tparams, EffectiveDecay(decay, it)),
     buffers |-> EmaZip(m.buffers, mt.buffers, EffectiveDecay(decay, it)),
     shares |-> FALSE]

\* -------------------------------------------------- Class_Aware_Threshold
RECURSIVE SumOver(_, _)
SumOver(f, S) ==
    IF S = {} THEN 0
    ELSE LET p == CHOOSE q \in S : TRUE IN f[p] + SumOver(f, S \ {p})

Pixels == 1..HW
FeatPixels == 1..ClSize

\* pixels of the batch whose pseudo-label is class k
PixelsOf(label, k) == {p \in Pixels : label[p] = k}

\* mean confidence of the batch among the pixels labelled k
BatchMean(conf, label, k) ==
    SumOver(conf, PixelsOf(label, k)) \div Cardinality(PixelsOf(label, k))

\* prob_conf after masking(): classes seen in the batch move towards the
\* batch mean with the momentum, the others keep their value
UpdatedProbConf(prob_conf, conf, label) ==
    [k \in Classes |->
        IF PixelsOf(label, k) = {} THEN prob_conf[k]
        ELSE (MomentumNum * prob_conf[k]
              + (MomentumDen - MomentumNum) * BatchMean(conf, label, k))
             \div MomentumDen]

\* get_mask.masking(logits_mix, label_mix, iters): the new threshold state and
\* the trust mask taken against it
masking(prob_conf, conf, label) ==
    LET pc2 == UpdatedProbConf(prob_conf, conf, label) IN
    [prob_conf |-> pc2,
     mask |-> [p \in Pixels |-> IF conf[p] >= pc2[label[p]] THEN 1 ELSE 0]]

\* CCB_utils.label_one_hot_encoder
label_one_hot_encoder(label) ==
    [k \in Classes |-> [p \in Pixels |-> IF label[p] = k THEN 1 ELSE 0]]

\* ------------------------------------------------------------ BCO masks
\* F.interpolate(mode='nearest') from HW pixels to ClSize pixels: the source
\* pixel of output pixel j
NearestSrc(j) == ((j - 1) * HW) \div ClSize + 1

interpolate(x) == [j \in FeatPixels |-> x[NearestSrc(j)]]

\* cls_thresholds = get_mask.prob_conf[label_mix]
cls_thresholds(prob_conf, label) == [p \in Pixels |-> prob_conf[label[p]]]

mask_u_weak_gt(prob_conf, conf, label) ==
    [p \in Pixels |->
        IF conf[p] > cls_thresholds(prob_conf, label)[p] THEN 1 ELSE 0]

\* mask_u_weak = logits_mix.ge(cls_thresholds)
mask_u_weak(prob_conf, conf, label) ==
    [p \in Pixels |->
        IF conf[p] >= cls_thresholds(prob_conf, label)[p] THEN 1 ELSE 0]

\* valid_pix_u = interpolate(one_hot(label_mix)) * interpolate(mask_u_weak)
valid_pix_u_of(prob_conf, conf, label) ==
    [k \in Classes |->
        [j \in FeatPixels |->
            interpolate(label_one_hot_encoder(label)[k])[j]
            * interpolate(mask_u_weak(prob_conf, conf, label))[j]]]

\* ------------------------------------------------------------------ state
VARIABLES
    pc,                    \* position of the process in main()
    ema_decay,             \* cfg['semi']['ema_decay']
    model,                 \* student: [params, buffers]
    model_teacher,         \* teacher: [params, buffers, shares]; shares: its
                           \* parameters' .data is the student's storage
    optimizer,             \* [lr, momentum]; lr = total_iters - n stands for
                           \* base_lr * (1 - n / total_iters) ** 0.9
    epoch, i, iters,
    epoch_range,           \* next value of range(epoch + 1, epochs)
    previous_best_mdice, previous_best_mhd95, previous_best_acc,
    latest_pth, best_pth,  \* the checkpoint files: <<>> or <<dict>>
    get_mask,              \* [prob_conf]: the Class_Aware_Threshold object
    label_mix, logits_mix, \* pseudo-labels and confidences of the mixed batch
    mask_mix, valid_pix_u, \* trust mask of masking(), validity mask of BCO
    run,                   \* number of the running process, from 1
    ops,                   \* operations the current training step has done
    used,                  \* the iters value each consumer of this step got
    trained,               \* per epoch, training steps executed, over all runs
    created,               \* Class_Aware_Threshold objects built by this run
    nmask,                 \* masking() calls of the current training step
    steps_in_run,          \* training steps this process has completed
    resumed,               \* this process loaded latest.pth
    m_dice,                \* m_dice * 100 of the last evaluation, -1 before it
    dice_seen,             \* every m_dice * 100 evaluated so far, over all runs
    pre                    \* <<memory of the previous process when it stopped>>,
                           \* kept until this process mixes its first batch

vars == <<pc, ema_decay, model, model_teacher, optimizer, epoch, i, iters,
          epoch_range,
          previous_best_mdice, previous_best_mhd95, previous_best_acc,
          latest_pth, best_pth, get_mask, label_mix, logits_mix, mask_mix,
          valid_pix_u, run, ops, used, trained, created, nmask, steps_in_run,
          resumed, m_dice, dice_seen, pre>>

nets == <<model, model_teacher, optimizer>>
loop == <<epoch, i, iters, epoch_range>>
trackers == <<previous_best_mdice, previous_best_mhd95, previous_best_acc>>
disk == <<latest_pth, best_pth>>
batch == <<label_mix, logits_mix, mask_mix, valid_pix_u>>
hist == <<run, trained, created, steps_in_run, resumed>>
stepg == <<ops, used, nmask>>
evals == <<m_dice, dice_seen>>

\* the values the teacher's parameters hold
TeacherParams ==
    IF model_teacher.shares THEN model.params ELSE model_teacher.params

NWeights == Cardinality(Weights)

\* net_factory(...) under the fixed seed
FreshModel ==
    [params |-> [k \in 1..NParams |-> (k - 1) % NWeights],
     buffers |-> [k \in 1..NBuffers |-> 0]]

\* SGD(model.parameters(), lr=base_lr, momentum=0.9, ...)
FreshOptimizer == [lr |-> total_iters, momentum |-> 0]

NoBatch == [p \in Pixels |-> 0]
NoValid == [k \in Classes |-> [j \in FeatPixels |-> 0]]
NoUse == [masking |-> -1, weight |-> -1, lr |-> -1, ema |-> -1]
Ones == [k \in Classes |-> 100]
Zeros == [k \in Classes |-> 0]

\* tensors shifted by d: what an in-place update leaves
Shift(t, d) == [k \in DOMAIN t |-> (t[k] + d) % NWeights]

Batches(LS, CS) == [label : [Pixels -> LS], conf : [Pixels -> CS]]
AllBatches == Batches(Classes, Confs)
\* one batch per class: the whole image of that class, class 0 confident
\* and the others unsure
MainBatches ==
    {[label |-> [p \in Pixels |-> k],
      conf |-> [p \in Pixels |-> IF k = 0 THEN 100 ELSE 50]] : k \in Classes}

\* memory of a process that has run lines 150-158 and 206-210
FreshProcess ==
    /\ pc = "construct"
    /\ model = FreshModel
    /\ model_teacher = [params |-> FreshModel.params,
                        buffers |-> FreshModel.buffers, shares |-> FALSE]
    /\ optimizer = FreshOptimizer
    /\ epoch = -1 /\ i = 0 /\ iters = 0 /\ epoch_range = 0
    /\ previous_best_mdice = 0
    /\ previous_best_mhd95 = 0
    /\ previous_best_acc = 0
    /\ get_mask = [prob_conf |-> Zeros]
    /\ label_mix = NoBatch /\ logits_mix = NoBatch
    /\ mask_mix = NoBatch /\ valid_pix_u = NoValid
    /\ ops = <<>> /\ used = NoUse /\ created = 0 /\ nmask = 0
    /\ steps_in_run = 0 /\ resumed = FALSE
    /\ m_dice = -1

Init ==
    /\ FreshProcess
    /\ ema_decay \in MainDecays
    /\ latest_pth = <<>> /\ best_pth = <<>>
    /\ run = 1
    /\ trained = [e \in 0..(Epochs - 1) |-> 0]
    /\ dice_seen = {}
    /\ pre = <<>>

\* ---------------------------------------------------------------- startup
\* model_teacher = deepcopy(model); requires_grad = False;
\* t_params.data = s_params.data for every parameter
TeacherInit ==
    /\ pc = "construct"
    /\ model_teacher' = [params |-> model.params, buffers |-> model.buffers,
                         shares |-> TRUE]
    /\ pc' = "load"
    /\ UNCHANGED <<ema_decay, evals, model, optimizer, loop, trackers, disk, get_mask,
                   batch, hist, stepg, pre>>

\* latest.pth exists: load_state_dict copies into the student's tensors in
\* place; the optimizer, the epoch and the trackers are read back
LoadCheckpoint ==
    /\ pc = "load"
    /\ latest_pth # <<>>
    /\ model' = latest_pth[1].model
    /\ optimizer' = latest_pth[1].optimizer
    /\ epoch' = latest_pth[1].epoch
    /\ previous_best_mdice' = latest_pth[1].previous_best_mdice
    /\ previous_best_mhd95' = latest_pth[1].previous_best_mhd95
    /\ previous_best_acc' = latest_pth[1].previous_best_acc
    /\ resumed' = TRUE
    /\ pc' = "threshold"
    /\ UNCHANGED <<ema_decay, evals, model_teacher, i, iters, epoch_range, disk,
                   get_mask, batch, run, trained, created, steps_in_run, stepg,
                   pre>>

NoCheckpoint ==
    /\ pc = "load"
    /\ latest_pth = <<>>
    /\ pc' = "threshold"
    /\ UNCHANGED <<ema_decay, evals, nets, loop, trackers, disk, get_mask, batch, hist,
                   stepg, pre>>

\* get_mask = CCB_utils.Class_Aware_Threshold(num_classes, momentum=0.99)
CreateThreshold(I) ==
    /\ pc = "threshold"
    /\ \E init \in I : get_mask' = [prob_conf |-> init]
    /\ created' = created + 1
    /\ pc' = "loop_enter"
    /\ UNCHANGED <<ema_decay, evals, nets, loop, trackers, disk, batch, run, trained,
                   steps_in_run, resumed, stepg, pre>>

RangeStartSame(e) == IF e < 0 THEN 0 ELSE e

\* first value of range(epoch + 1, epochs)
RangeStart(e) == e + 1

\* for epoch in range(epoch + 1, epochs): the range is built once
LoopEnter ==
    /\ pc = "loop_enter"
    /\ epoch_range' = RangeStart(epoch)
    /\ pc' = "epoch_top"
    /\ UNCHANGED <<ema_decay, evals, nets, epoch, i, iters, trackers, disk, get_mask,
                   batch, hist, stepg, pre>>

\* an epoch loop that builds the threshold object anew each epoch
EpochTopRecreate ==
    /\ pc = "epoch_top"
    /\ IF epoch_range < Epochs
       THEN /\ epoch' = epoch_range
            /\ epoch_range' = epoch_range + 1
            /\ i' = 0
            /\ get_mask' = [prob_conf |-> Ones]
            /\ created' = created + 1
            /\ pc' = "teacher_forward"
       ELSE /\ pc' = "done"
            /\ UNCHANGED <<epoch, epoch_range, i, get_mask, created>>
    /\ UNCHANGED <<ema_decay, evals, nets, iters, trackers, disk, batch, run, trained,
                   steps_in_run, resumed, stepg, pre>>

\* the loop header: the next epoch of the range, or the end of main();
\* then loader = zip(trainloader_l, trainloader_u)
EpochTop ==
    /\ pc = "epoch_top"
    /\ IF epoch_range < Epochs
       THEN /\ epoch' = epoch_range
            /\ epoch_range' = epoch_range + 1
            /\ i' = 0
            /\ pc' = "teacher_forward"
       ELSE /\ pc' = "done"
            /\ UNCHANGED <<epoch, epoch_range, i>>
    /\ UNCHANGED <<ema_decay, evals, nets, iters, trackers, disk, get_mask, batch,
                   hist, stepg, pre>>

\* ---------------------------------------------------------- training step
\* with torch.no_grad(): model_teacher.eval(); pred_u_w = model_teacher(...)
TeacherForward ==
    /\ pc = "teacher_forward"
    /\ ops' = <<"teacher_forward">>
    /\ used' = NoUse
    /\ nmask' = 0
    /\ pc' = "cgc"
    /\ UNCHANGED <<ema_decay, evals, nets, loop, trackers, disk, get_mask, batch,
                   hist, pre>>

\* x_mix, label_mix, logits_mix = Confidence_Guided_Cutmix(img_u_s, pred_u_w_soft)
CGC(B) ==
    /\ pc = "cgc"
    /\ \E b \in B : label_mix' = b.label /\ logits_mix' = b.conf
    /\ ops' = Append(ops, "cgc")
    /\ pre' = <<>>
    /\ pc' = "student_forward"
    /\ UNCHANGED <<ema_decay, evals, nets, loop, trackers, disk, get_mask, mask_mix,
                   valid_pix_u, hist, used, nmask>>

\* model.train(); preds, feats = model(torch.cat((img_x, x_mix))): the
\* normalisation layers update their running statistics in place
StudentForward(D) ==
    /\ pc = "student_forward"
    /\ \E d \in D : model' = [model EXCEPT !.buffers = Shift(@, d)]
    /\ ops' = Append(ops, "student_forward")
    /\ pc' = "sup_loss"
    /\ UNCHANGED <<ema_decay, evals, model_teacher, optimizer, loop, trackers, disk,
                   get_mask, batch, hist, used, nmask, pre>>

\* loss_x = 0.5 * (loss_ce + loss_dice)
SupLoss ==
    /\ pc = "sup_loss"
    /\ ops' = Append(ops, "sup_loss")
    /\ pc' = "cat"
    /\ UNCHANGED <<ema_decay, evals, nets, loop, trackers, disk, get_mask, batch,
                   hist, used, nmask, pre>>

\* the masking call made only once the teacher has been updated
CATLate ==
    \/ /\ pc = "cat"
       /\ pc' = "optim"
       /\ UNCHANGED <<ema_decay, evals, nets, loop, trackers, disk, get_mask, batch,
                      hist, stepg, pre>>
    \/ /\ pc = "iters"
       /\ nmask = 0
       /\ get_mask' = [prob_conf |->
              masking(get_mask.prob_conf, logits_mix, label_mix).prob_conf]
       /\ mask_mix' = masking(get_mask.prob_conf, logits_mix, label_mix).mask
       /\ nmask' = nmask + 1
       /\ ops' = Append(ops, "masking")
       /\ UNCHANGED <<pc, ema_decay, evals, nets, loop, trackers, disk, label_mix,
                      logits_mix, valid_pix_u, hist, used, pre>>

\* mask_mix, mask_ratio_mix, tau_mix = get_mask.masking(logits_mix, label_mix, iters)
\* loss_cat = (cross_entropy(pre_mix, label_mix) * mask_mix).mean()
CAT ==
    /\ pc = "cat"
    /\ get_mask' = [prob_conf |->
           masking(get_mask.prob_conf, logits_mix, label_mix).prob_conf]
    /\ mask_mix' = masking(get_mask.prob_conf, logits_mix, label_mix).mask
    /\ nmask' = nmask + 1
    /\ used' = [used EXCEPT !.masking = iters]
    /\ ops' = Append(ops, "masking")
    /\ pc' = "bco"
    /\ UNCHANGED <<ema_decay, evals, nets, loop, trackers, disk, label_mix,
                   logits_mix, valid_pix_u, hist, pre>>

\* valid_pix_u, the contrastive loss, consistency_weight =
\* get_current_consistency_weight(iters // 150) and the total loss
BCO ==
    /\ pc = "bco"
    /\ valid_pix_u' = valid_pix_u_of(get_mask.prob_conf, logits_mix, label_mix)
    /\ used' = [used EXCEPT !.weight = iters]
    /\ ops' = Append(ops, "bco")
    /\ pc' = "optim"
    /\ UNCHANGED <<ema_decay, evals, nets, loop, trackers, disk, get_mask, label_mix,
                   logits_mix, mask_mix, hist, nmask, pre>>

\* optimizer.zero_grad(); loss.backward(); optimizer.step(): the student's
\* parameter tensors are updated in place
OptimStep(D) ==
    /\ pc = "optim"
    /\ \E d \in D :
          /\ model' = [model EXCEPT !.params = Shift(@, d)]
          /\ optimizer' = [optimizer EXCEPT !.momentum = d]
    /\ ops' = Append(ops, "optim_step")
    /\ pc' = "lr"
    /\ UNCHANGED <<ema_decay, evals, model_teacher, loop, trackers, disk, get_mask,
                   batch, hist, used, nmask, pre>>

\* lr = base_lr * (1 - iters / total_iters) ** 0.9, written to the param groups
PolyLr(it) == total_iters - it

LrUpdate ==
    /\ pc = "lr"
    /\ optimizer' = [optimizer EXCEPT !.lr = PolyLr(iters)]
    /\ used' = [used EXCEPT !.lr = iters]
    /\ ops' = Append(ops, "lr")
    /\ pc' = "ema"
    /\ UNCHANGED <<ema_decay, evals, model, model_teacher, loop, trackers, disk,
                   get_mask, batch, hist, nmask, pre>>

\* with torch.no_grad(): update_ema_variables(model, model_teacher, ema_decay, iters)
EmaUpdate ==
    /\ pc = "ema"
    /\ model_teacher' = update_ema_variables(model, model_teacher,
                                             TeacherParams, ema_decay, iters)
    /\ used' = [used EXCEPT !.ema = iters]
    /\ ops' = Append(ops, "ema")
    /\ pc' = "iters"
    /\ UNCHANGED <<ema_decay, evals, model, optimizer, loop, trackers, disk, get_mask,
                   batch, hist, nmask, pre>>

\* iters = epoch * len(trainloader_u) + i, then the next batch or the
\* evaluation of the epoch
ItersUpdate ==
    /\ pc = "iters"
    /\ iters' = epoch * LoaderLen + i
    /\ ops' = Append(ops, "iters")
    /\ trained' = [trained EXCEPT ![epoch] = @ + 1]
    /\ steps_in_run' = steps_in_run + 1
    /\ IF i + 1 < LoaderLen
       THEN i' = i + 1 /\ pc' = "teacher_forward"
       ELSE i' = i /\ pc' = "evaluate"
    /\ UNCHANGED <<ema_decay, evals, nets, epoch, epoch_range, trackers, disk,
                   get_mask, batch, run, created, resumed, used, nmask, pre>>

\* ------------------------------------------------- evaluation, checkpoint
Max(a, b) == IF a >= b THEN a ELSE b

\* the dict saved this epoch: built before the is_best branch assigns
\* previous_best_mhd95 and previous_best_acc
Checkpoint(mdice) ==
    [model |-> model,
     optimizer |-> optimizer,
     epoch |-> epoch,
     previous_best_mdice |-> Max(mdice, previous_best_mdice),
     previous_best_mhd95 |-> previous_best_mhd95,
     previous_best_acc |-> previous_best_acc * 100]

IsBestOrEqual(mdice, best) == mdice >= best

\* is_best = m_dice * 100.0 > previous_best_mdice
IsBest(mdice, best) == mdice > best

\* model.eval(), the validation loop, is_best, the trackers, torch.save;
\* mdice is m_dice * 100 (drawn from D), mhd95 is m_hd95, acc is m_pa * 100
Evaluate(D, M) ==
    /\ pc = "evaluate"
    /\ \E mdice \in D, mhd95 \in M, acc \in M :
          LET is_best == IsBest(mdice, previous_best_mdice) IN
          /\ m_dice' = mdice
          /\ dice_seen' = dice_seen \cup {mdice}
          /\ previous_best_mdice' = Max(mdice, previous_best_mdice)
          /\ previous_best_mhd95' = IF is_best THEN mhd95
                                    ELSE previous_best_mhd95
          /\ previous_best_acc' = IF is_best THEN acc ELSE previous_best_acc
          /\ best_pth' = IF is_best THEN <<Checkpoint(mdice)>> ELSE best_pth
          /\ latest_pth' = <<Checkpoint(mdice)>>
    /\ pc' = "epoch_top"
    /\ UNCHANGED <<ema_decay, nets, loop, get_mask, batch, hist, stepg, pre>>

\* ---------------------------------------------------------- stop / resume
\* what the process holds in memory at an epoch boundary
Memory ==
    [model |-> model, optimizer |-> optimizer, tparams |-> TeacherParams,
     tbuffers |-> model_teacher.buffers, iters |-> iters, epoch |-> epoch,
     prob_conf |-> get_mask.prob_conf, saved |-> latest_pth # <<>>]

\* the process ends between two epochs (or after the last); the script is
\* started again and runs lines 150-210
Stop ==
    /\ pc \in {"epoch_top", "done"}
    /\ run < MaxRuns
    /\ run' = run + 1
    /\ pre' = <<Memory>>
    /\ pc' = "construct"
    /\ model' = FreshModel
    /\ model_teacher' = [params |-> FreshModel.params,
                         buffers |-> FreshModel.buffers, shares |-> FALSE]
    /\ optimizer' = FreshOptimizer
    /\ epoch' = -1 /\ i' = 0 /\ iters' = 0 /\ epoch_range' = 0
    /\ previous_best_mdice' = 0
    /\ previous_best_mhd95' = 0
    /\ previous_best_acc' = 0
    /\ get_mask' = [prob_conf |-> Zeros]
    /\ label_mix' = NoBatch /\ logits_mix' = NoBatch
    /\ mask_mix' = NoBatch /\ valid_pix_u' = NoValid
    /\ ops' = <<>> /\ used' = NoUse /\ created' = 0 /\ nmask' = 0
    /\ steps_in_run' = 0 /\ resumed' = FALSE
    /\ m_dice' = -1
    /\ UNCHANGED <<ema_decay, disk, trained, dice_seen>>

\* a training run that may be stopped and started again: every forward pass
\* moves the running statistics, the optimizer step may or may not move the
\* weights
Next ==
    \/ TeacherInit
    \/ LoadCheckpoint
    \/ NoCheckpoint
    \/ CreateThreshold({Ones})
    \/ LoopEnter
    \/ EpochTop
    \/ TeacherForward
    \/ CGC(MainBatches)
    \/ StudentForward({1})
    \/ SupLoss
    \/ CAT
    \/ BCO
    \/ OptimStep(Weights)
    \/ LrUpdate
    \/ EmaUpdate
    \/ ItersUpdate
    \/ Evaluate(Dices, Metrics)
    \/ Stop

Spec == Init /\ [][Next]_vars

\* --------------------------------------- thresholding over every batch
\* the same run, fed every mixed batch and both initial threshold vectors,
\* with one outcome of the optimizer step and of the evaluation
NextMask ==
    \/ TeacherInit
    \/ NoCheckpoint
    \/ CreateThreshold({Ones, Zeros})
    \/ LoopEnter
    \/ EpochTop
    \/ TeacherForward
    \/ CGC(AllBatches)
    \/ StudentForward({1})
    \/ SupLoss
    \/ CAT
    \/ BCO
    \/ OptimStep({1})
    \/ LrUpdate
    \/ EmaUpdate
    \/ ItersUpdate
    \/ Evaluate({1}, {1})

SpecMask == Init /\ [][NextMask]_vars

\* ------------------------------------- update_ema_variables on its own
Tensors(n) == [1..n -> EmaValues]

\* a student, a teacher (its parameters its own or the student's storage),
\* a configured decay and a step, at the call of update_ema_variables
InitEma ==
    /\ pc = "ema_call"
    /\ model \in [params : Tensors(NParams), buffers : Tensors(NBuffers)]
    /\ model_teacher \in [params : Tensors(NParams),
                          buffers : Tensors(NBuffers), shares : BOOLEAN]
    /\ model_teacher.shares => model_teacher.params = model.params
    /\ ema_decay \in Decays
    /\ iters \in 0..MaxIters
    /\ optimizer = FreshOptimizer
    /\ epoch = 0 /\ i = 0 /\ epoch_range = 1
    /\ previous_best_mdice = 0
    /\ previous_best_mhd95 = 0
    /\ previous_best_acc = 0
    /\ latest_pth = <<>> /\ best_pth = <<>>
    /\ get_mask = [prob_conf |-> Ones]
    /\ label_mix = NoBatch /\ logits_mix = NoBatch
    /\ mask_mix = NoBatch /\ valid_pix_u = NoValid
    /\ run = 1 /\ ops = <<>> /\ used = NoUse /\ created = 1 /\ nmask = 0
    /\ trained = [e \in 0..(Epochs - 1) |-> 0]
    /\ steps_in_run = 0 /\ resumed = FALSE
    /\ m_dice = -1 /\ dice_seen = {}
    /\ pre = <<Memory>>

EmaCall ==
    /\ pc = "ema_call"
    /\ model_teacher' = update_ema_variables(model, model_teacher,
                                             TeacherParams, ema_decay, iters)
    /\ pc' = "ema_return"
    /\ UNCHANGED <<ema_decay, evals, model, optimizer, loop, trackers, disk, get_mask,
                   batch, hist, stepg, pre>>

NextEma == EmaCall

SpecEma == InitEma /\ [][NextEma]_vars

\* ================================================================ claims
Range(f) == {f[x] : x \in DOMAIN f}

IsPrefix(a, b) ==
    /\ Len(a) <= Len(b)
    /\ \A n \in 1..Len(a) : a[n] = b[n]

\* the order of the operations of one training step in main()
StepOrder ==
    <<"teacher_forward", "cgc", "student_forward", "sup_loss", "masking",
      "bco", "optim_step", "lr", "ema", "iters">>

\* C1 (as stated in the claim): within a step the threshold state is mutated
\* by masking only after that step's optimizer update and after its EMA
\* update.
C1_MaskingAfterUpdates ==
    "masking" \in Range(ops) =>
        "optim_step" \in Range(ops) /\ "ema" \in Range(ops)

\* C1 (amended): the operations a step has done so far are always an initial
\* part of: teacher forward, mixing, student forward, supervised loss,
\* masking (threshold-state update), contrastive masks and losses, optimizer
\* step, learning rate, teacher EMA update, step counter; so masking precedes
\* the optimizer step and the EMA update of its step.
C1_StepOrder ==
    /\ IsPrefix(ops, StepOrder)
    /\ "optim_step" \in Range(ops) => "masking" \in Range(ops)
    /\ "ema" \in Range(ops) => "optim_step" \in Range(ops)

\* a step of the second epoch has run all its operations
C1_Witness == ops = StepOrder /\ epoch = 1 /\ pc # "iters"

\* C2: within a process, once the teacher is built, the values of its
\* parameters change only in update_ema_variables.
C2_TeacherOnlyByEma ==
    [][(run' = run /\ pc # "construct" /\ TeacherParams' # TeacherParams)
        => pc = "ema"]_vars

\* the state update_ema_variables was called in (pre holds it under SpecEma)
CallRamp == <<iters, iters + 1>>
CallDecay ==
    IF iters * ema_decay[2] <= ema_decay[1] * (iters + 1)
    THEN CallRamp ELSE ema_decay
Mixed(old, new) ==
    (old * CallDecay[1] + new * (CallDecay[2] - CallDecay[1])) \div CallDecay[2]

\* C3: after update_ema_variables every teacher parameter and buffer is the
\* mix of its old value and the student's with weight min(1 - 1/(step+1),
\* decay); at step 0 the teacher equals the student whatever the decay.
C3_EffectiveDecay ==
    pc = "ema_return" =>
        /\ \A k \in 1..NParams :
              model_teacher.params[k]
                  = Mixed(pre[1].tparams[k], pre[1].model.params[k])
        /\ \A k \in 1..NBuffers :
              model_teacher.buffers[k]
                  = Mixed(pre[1].tbuffers[k], pre[1].model.buffers[k])
        /\ iters = 0 =>
              /\ model_teacher.params = model.params
              /\ model_teacher.buffers = model.buffers

\* step 0, a positive configured decay and a teacher that differed from the
\* student in a parameter and in a buffer
C3_Witness ==
    /\ pc = "ema_return" /\ iters = 0 /\ ema_decay = <<99, 100>>
    /\ pre[1].tparams # pre[1].model.params
    /\ pre[1].tbuffers # pre[1].model.buffers
    /\ model_teacher.params = model.params

\* C4: with configured decay 0 one call leaves every teacher parameter and
\* buffer equal to the student's, at any step, and the student as it was.
C4_DecayZero ==
    (pc = "ema_return" /\ ema_decay[1] = 0) =>
        /\ \A k \in 1..NParams : TeacherParams[k] = pre[1].model.params[k]
        /\ \A k \in 1..NBuffers :
              model_teacher.buffers[k] = pre[1].model.buffers[k]
        /\ model = pre[1].model

\* decay 0 at a late step, the teacher having differed in every tensor whose
\* student value is not the same in all tensors
C4_Witness ==
    /\ pc = "ema_return" /\ ema_decay[1] = 0 /\ iters = MaxIters
    /\ pre[1].model.params[1] # pre[1].model.params[2]
    /\ \A k \in 1..NParams : pre[1].tparams[k] # pre[1].model.params[k]
    /\ \A k \in 1..NBuffers : pre[1].tbuffers[k] # pre[1].model.buffers[k]

\* C5: when an epoch has written latest.pth, the three trackers stored in it
\* are the values the trackers hold in memory at the end of that epoch.
C5_TrackersSaved ==
    (pc = "epoch_top" /\ steps_in_run > 0 /\ latest_pth # <<>>) =>
        /\ latest_pth[1].previous_best_mdice = previous_best_mdice
        /\ latest_pth[1].previous_best_mhd95 = previous_best_mhd95
        /\ latest_pth[1].previous_best_acc = previous_best_acc

\* C6: the first training step of a process resumed from latest.pth starts
\* from the state the stopped process held at that epoch boundary: student,
\* optimizer, teacher parameters and buffers, iters.
C6_ResumeEquivalent ==
    (pc = "teacher_forward" /\ resumed /\ steps_in_run = 0 /\ pre # <<>>) =>
        /\ model = pre[1].model
        /\ optimizer = pre[1].optimizer
        /\ TeacherParams = pre[1].tparams
        /\ model_teacher.buffers = pre[1].tbuffers
        /\ iters = pre[1].iters

AllEpochs == 0..(Epochs - 1)
BetweenEpochs == {"epoch_top", "done", "construct", "load", "threshold",
                  "loop_enter"}

\* C7: latest.pth written at the end of epoch e records e; a process that
\* loaded it starts its loop at e + 1; over any stops and resumes at epoch
\* boundaries no epoch is trained more than once, the epochs up to the
\* recorded one are trained and the later ones are not, and when main()
\* ends every epoch has been trained exactly once.
C7_EpochsOnce ==
    /\ \A e \in AllEpochs : trained[e] <= LoaderLen
    /\ pc = "done" => \A e \in AllEpochs : trained[e] = LoaderLen
    /\ (pc = "epoch_top" /\ steps_in_run > 0) =>
          latest_pth # <<>> /\ latest_pth[1].epoch = epoch
    /\ (pc = "teacher_forward" /\ resumed /\ steps_in_run = 0) =>
          epoch = latest_pth[1].epoch + 1
    /\ (pc \in BetweenEpochs /\ latest_pth # <<>>) =>
          \A e \in AllEpochs :
              trained[e] = IF e <= latest_pth[1].epoch THEN LoaderLen ELSE 0

\* a process that resumed from latest.pth, trained an epoch and ended main()
C7_Witness ==
    /\ pc = "done" /\ resumed /\ steps_in_run = LoaderLen
    /\ \A e \in AllEpochs : trained[e] = LoaderLen

InStep == {"cgc", "student_forward", "sup_loss", "cat", "bco", "optim", "lr",
           "ema", "iters"}
AfterMasking == {"bco", "optim", "lr", "ema", "iters"}

\* C8: a process builds the threshold object once, before its loop; each
\* training step calls masking once; within a process nothing but the
\* construction and masking writes the thresholds, and nothing builds the
\* object again.
C8_ThresholdLifecycle ==
    /\ []((pc \in InStep \cup {"teacher_forward", "evaluate", "epoch_top",
                               "loop_enter", "done"}) => created = 1)
    /\ []((pc \in AfterMasking => nmask = 1)
          /\ (pc \in InStep \ AfterMasking => nmask = 0))
    /\ [][(run' = run /\ get_mask' # get_mask)
           => pc \in {"threshold", "cat"}]_vars
    /\ [][(run' = run /\ created' # created) => pc = "threshold"]_vars

\* main() has ended after all its epochs with the one object it built, whose
\* class-1 threshold has moved at every step
C8_Witness ==
    /\ pc = "done" /\ created = 1 /\ steps_in_run = Epochs * LoaderLen
    /\ get_mask.prob_conf[1] <= 100 - Epochs * LoaderLen

\* C9: once a step has built valid_pix_u, a pixel of the resized mixed batch
\* is valid for class k iff its pseudo-label is k and its confidence is at
\* least prob_conf[k] as that step's masking call left it; so it is valid
\* for at most one class, and for none when masking did not trust it.
C9_ValidPixels ==
    pc \in {"optim", "lr", "ema", "iters"} =>
        /\ nmask = 1
        /\ \A j \in FeatPixels, k \in Classes :
              /\ valid_pix_u[k][j] \in {0, 1}
              /\ valid_pix_u[k][j] = 1 <=>
                    /\ label_mix[NearestSrc(j)] = k
                    /\ logits_mix[NearestSrc(j)] >= get_mask.prob_conf[k]
        /\ \A j \in FeatPixels :
              /\ Cardinality({k \in Classes : valid_pix_u[k][j] = 1}) <= 1
              /\ mask_mix[NearestSrc(j)] = 0 =>
                    \A k \in Classes : valid_pix_u[k][j] = 0

\* a later step whose thresholds have moved, with a valid pixel and, in the
\* mixed image, a pixel masking did not trust
C9_Witness ==
    /\ pc = "optim" /\ steps_in_run >= 1
    /\ get_mask.prob_conf \notin {Ones, Zeros}
    /\ \E j \in FeatPixels, k \in Classes : valid_pix_u[k][j] = 1
    /\ \E p \in Pixels : mask_mix[p] = 0

\* C10: in a run started without a checkpoint, step number
\* g = epoch * len(trainloader_u) + i hands iters = g to masking, to the
\* consistency weight, to the learning rate and to update_ema_variables.
C10_ItersIsStepNumber ==
    (run = 1 /\ ~resumed /\ pc = "iters") =>
        LET g == epoch * LoaderLen + i IN
        used = [masking |-> g, weight |-> g, lr |-> g, ema |-> g]

\* C11: the learning rate written to the param groups,
\* base_lr * (1 - iters / total_iters) ** 0.9, is never above the one it
\* replaces (the rate of the training step before, which a resumed run reads
\* back from latest.pth) and lies in (0, base_lr], with
\* 0 <= iters < total_iters, in a fresh run and in a resumed one.  The model
\* holds total_iters - iters for the rate, which has the same order.
C11_LrNeverIncreases ==
    /\ [](iters \in 0..(total_iters - 1) /\ optimizer.lr \in 1..total_iters)
    /\ [][pc = "lr" => optimizer'.lr <= optimizer.lr]_vars

SetMax(S) == CHOOSE x \in S : \A y \in S : y <= x

\* what the evaluation of an epoch does to the tracker and to the two files
EvaluationStep ==
    /\ previous_best_mdice' = SetMax({0} \cup dice_seen')
    /\ previous_best_mdice' >= previous_best_mdice
    /\ (best_pth' # best_pth) <=> (m_dice' > previous_best_mdice)
    /\ latest_pth' # latest_pth
    /\ latest_pth'[1].epoch = epoch
    /\ latest_pth'[1].previous_best_mdice = previous_best_mdice'

\* C12: the evaluation of an epoch leaves previous_best_mdice at the maximum
\* of 0.0 and every m_dice * 100 evaluated so far, never lower than before;
\* it overwrites best.pth exactly when this epoch's m_dice * 100 is strictly
\* above the previous best, and latest.pth always, with this epoch in it;
\* nothing else writes the two files; a later best.pth never stores a lower
\* previous_best_mdice than an earlier one.
C12_BestAndLatest ==
    [][/\ pc = "evaluate" => EvaluationStep
       /\ pc # "evaluate" => UNCHANGED disk
       /\ (best_pth # <<>> /\ best_pth' # best_pth) =>
              /\ best_pth'[1].previous_best_mdice > best_pth[1].previous_best_mdice
              /\ best_pth'[1].previous_best_mdice = m_dice'
              /\ best_pth'[1].epoch = epoch]_vars

\* a resumed run has evaluated epoch 1 with the m_dice of epoch 0: latest.pth
\* is of epoch 1 and best.pth still the one of epoch 0
C12_Witness ==
    /\ resumed /\ pc = "epoch_top"
    /\ m_dice = 1 /\ previous_best_mdice = 1 /\ dice_seen = {1}
    /\ latest_pth # <<>> /\ latest_pth[1].epoch = 1
    /\ best_pth # <<>> /\ best_pth[1].epoch = 0

====
